---- MODULE Spec2Model ----
(***************************************************************************)
(* The pallet of src/lib.rs: one dispatchable, set_value, over two storage *)
(* items (GetValue, GetReservedBalance) and the event HelloValueStored.    *)
(* The runtime dispatches calls one at a time; the Currency the pallet is  *)
(* configured with is the ledger that owns the reserved balances.          *)
(***************************************************************************)
EXTENDS Integers, Sequences, FiniteSets, TLC

(* ------------------------------ bounds -------------------------------- *)

\* number of set_value calls the runtime admits in a behaviour
MaxCalls == 3
\* reserved balances range over 0..MaxBalance
MaxBalance == 1
\* call arguments range over the u32 values 0..MaxValue and the largest u32
MaxValue == 0

(* ------------------------------ types --------------------------------- *)

\* A u32 is kept as its two 16-bit halves <<high, low>>, since the model
\* checker's own integers stop short of 2^32 - 1.
HalfMax == 65535
U32(high, low) == << high, low >>
\* u32::default()
U32Zero == U32(0, 0)
\* u32::MAX
U32Max == U32(HalfMax, HalfMax)

\* T::AccountId
Accounts == {"alice", "bob"}

\* placeholder carried by an origin that holds no account
NoAccount == "nobody"

\* BalanceOf<T>
Balances == 0..MaxBalance

\* the u32 argument of set_value
Values == {U32(0, low) : low \in 0..MaxValue} \cup {U32Max}

\* frame_system RawOrigin: Signed(account), Root, None
Signed(who) == [kind |-> "Signed", who |-> who]
Root == [kind |-> "Root", who |-> NoAccount]
Unsigned == [kind |-> "None", who |-> NoAccount]
Origins == {Signed(a) : a \in Accounts} \cup {Root, Unsigned}

\* the origin recorded before any call was dispatched
NoCall == [kind |-> "NoCall", who |-> NoAccount]

\* Option<T> as a sequence of length at most one
None == << >>
Some(x) == << x >>

\* a storage map with no entry
EmptyMap == [a \in {} |-> 0]

\* no call in progress: no arguments, no locals
NoFrame == [origin |-> NoCall, value |-> U32Zero, caller |-> NoAccount, balance |-> 0]

\* no call in progress: nothing to go back to
NoSaved == [GetValue |-> None, GetReservedBalance |-> EmptyMap, events |-> << >>]

\* Event::HelloValueStored(u32, T::AccountId)
HelloValueStored(value, who) == [value |-> value, account |-> who]

VARIABLES
    GetValue,            \* storage value: Option<u32> under the ValueQuery getter
    GetReservedBalance,  \* storage map: the stored entries, AccountId -> Balance
    events,              \* the events deposited so far, in order
    result,              \* what the last dispatched set_value returned
    reserved,            \* the Currency's reserved balance of every account
    calls,               \* history: number of set_value calls dispatched
    lastOrigin,          \* history: origin of the last dispatched call
    accepted,            \* history: <<value, account>> of every signed call, in dispatch order
    queried,             \* history: reserved balance of each account when it last made a signed call
    pc,                  \* 0 between calls, else the position set_value has reached in its body
    frame,               \* the arguments and locals of the set_value call in progress
    saved,               \* GetValue, GetReservedBalance and events as the call in progress found them
    done                 \* history: the statements the latest call has executed, in order

vars == << GetValue, GetReservedBalance, events, result, reserved,
           calls, lastOrigin, accepted, queried, pc, frame, saved, done >>

\* the call in progress, as a step-by-step run of set_value keeps it
inflight == << pc, frame, saved, done >>

store == << GetValue, GetReservedBalance >>

(* ------------------------- storage and getters ------------------------ *)

\* #[pallet::getter(fn get_value)] with ValueQuery: the default when nothing is stored
get_value == IF GetValue = None THEN U32Zero ELSE GetValue[1]

\* variant: a missing entry is answered with the ledger's live balance
get_reserved_balance_live(who) ==
    IF who \in DOMAIN GetReservedBalance THEN GetReservedBalance[who] ELSE reserved[who]

\* #[pallet::getter(fn get_reserved_balance)] with ValueQuery
get_reserved_balance(who) ==
    IF who \in DOMAIN GetReservedBalance THEN GetReservedBalance[who] ELSE 0

\* variant: the value is narrowed to its low 16 bits before it is stored
put_low_half(value) == Some(U32(0, value[2]))

\* GetValue::<T>::put(value)
put(value) == Some(value)

\* variant: an entry that exists is kept, as in a try-insert
insert_if_absent(key, balance) ==
    [k \in (DOMAIN GetReservedBalance) \cup {key} |->
        IF k \in DOMAIN GetReservedBalance THEN GetReservedBalance[k] ELSE balance]

\* variant: every stored entry is refreshed from the ledger along with the caller's
insert_refresh_all(key, balance) ==
    [k \in (DOMAIN GetReservedBalance) \cup {key} |->
        IF k = key THEN balance ELSE reserved[k]]

\* variant: the map is replaced by the one new entry
insert_replacing_map(key, balance) == [k \in {key} |-> balance]

\* GetReservedBalance::<T>::insert(key, balance)
insert(key, balance) ==
    [k \in (DOMAIN GetReservedBalance) \cup {key} |->
        IF k = key THEN balance ELSE GetReservedBalance[k]]

\* variant: the newest event is put first
deposit_event_prepend(event) == << event >> \o events

\* variant: an event equal to the last one deposited is dropped
deposit_event_dedup(event) ==
    IF events # << >> /\ events[Len(events)] = event THEN events ELSE Append(events, event)

\* Self::deposit_event(event)
deposit_event(event) == Append(events, event)

\* variant: the balance is taken as the type's default instead of being queried
reserved_balance_default(who) == 0

\* T::Currency::reserved_balance(&who)
reserved_balance(who) == reserved[who]

\* ensure_signed(origin): Ok(account) for a signed origin, Err(BadOrigin) otherwise
ensure_signed(origin) ==
    IF origin.kind = "Signed"
    THEN [ok |-> TRUE, who |-> origin.who]
    ELSE [ok |-> FALSE, who |-> NoAccount]

(* ------------------------------ set_value ----------------------------- *)

\* variant: the value is stored before the origin is checked
set_value_put_first(origin, value) ==
    LET signed == ensure_signed(origin) IN
    IF ~signed.ok
    THEN /\ GetValue' = put(value)
         /\ result' = "BadOrigin"
         /\ UNCHANGED << GetReservedBalance, events, reserved >>
    ELSE LET caller == signed.who
             reserve_balance_of_caller == reserved_balance(caller)
         IN /\ events' = deposit_event(HelloValueStored(value, caller))
            /\ GetValue' = put(value)
            /\ GetReservedBalance' = insert(caller, reserve_balance_of_caller)
            /\ result' = "Ok"
            /\ UNCHANGED reserved

\* variant: the caller's reservation is released once it has been recorded
set_value_unreserving(origin, value) ==
    LET signed == ensure_signed(origin) IN
    IF ~signed.ok
    THEN /\ result' = "BadOrigin"
         /\ UNCHANGED << GetValue, GetReservedBalance, events, reserved >>
    ELSE LET caller == signed.who
             reserve_balance_of_caller == reserved_balance(caller)
         IN /\ events' = deposit_event(HelloValueStored(value, caller))
            /\ GetValue' = put(value)
            /\ GetReservedBalance' = insert(caller, reserve_balance_of_caller)
            /\ result' = "Ok"
            /\ reserved' = [reserved EXCEPT ![caller] = 0]

\* variant: a value equal to the stored one is refused
set_value_unique_values(origin, value) ==
    LET signed == ensure_signed(origin) IN
    IF ~signed.ok
    THEN /\ result' = "BadOrigin"
         /\ UNCHANGED << GetValue, GetReservedBalance, events, reserved >>
    ELSE IF GetValue = Some(value)
    THEN /\ result' = "AlreadyStored"
         /\ UNCHANGED << GetValue, GetReservedBalance, events, reserved >>
    ELSE LET caller == signed.who
             reserve_balance_of_caller == reserved_balance(caller)
         IN /\ events' = deposit_event(HelloValueStored(value, caller))
            /\ GetValue' = put(value)
            /\ GetReservedBalance' = insert(caller, reserve_balance_of_caller)
            /\ result' = "Ok"
            /\ UNCHANGED reserved

\* variant: a zero balance is not written to the map
set_value_skip_zero_balance(origin, value) ==
    LET signed == ensure_signed(origin) IN
    IF ~signed.ok
    THEN /\ result' = "BadOrigin"
         /\ UNCHANGED << GetValue, GetReservedBalance, events, reserved >>
    ELSE LET caller == signed.who
             reserve_balance_of_caller == reserved_balance(caller)
         IN /\ events' = deposit_event(HelloValueStored(value, caller))
            /\ GetValue' = put(value)
            /\ GetReservedBalance' = IF reserve_balance_of_caller = 0
                                     THEN GetReservedBalance
                                     ELSE insert(caller, reserve_balance_of_caller)
            /\ result' = "Ok"
            /\ UNCHANGED reserved

\* pub fn set_value(origin, value) -> DispatchResultWithPostInfo
set_value(origin, value) ==
    LET signed == ensure_signed(origin) IN
    IF ~signed.ok
    THEN /\ result' = "BadOrigin"
         /\ UNCHANGED << GetValue, GetReservedBalance, events, reserved >>
    ELSE LET caller == signed.who
             reserve_balance_of_caller == reserved_balance(caller)
         IN /\ events' = deposit_event(HelloValueStored(value, caller))
            /\ GetValue' = put(value)
            /\ GetReservedBalance' = insert(caller, reserve_balance_of_caller)
            /\ result' = "Ok"
            /\ UNCHANGED reserved

(* ------------------------------ behaviour ----------------------------- *)

Init ==
    /\ GetValue = None
    /\ GetReservedBalance = EmptyMap
    /\ events = << >>
    /\ result = "NoCall"
    /\ reserved \in [Accounts -> Balances]
    /\ calls = 0
    /\ lastOrigin = NoCall
    /\ accepted = << >>
    /\ queried = EmptyMap
    /\ pc = 0
    /\ frame = NoFrame
    /\ saved = NoSaved
    /\ done = << >>

\* the runtime dispatches one set_value call and it runs to completion
Submit ==
    \E origin \in Origins, value \in Values :
        /\ calls < MaxCalls
        /\ set_value(origin, value)
        /\ calls' = calls + 1
        /\ lastOrigin' = origin
        /\ IF origin.kind = "Signed"
           THEN /\ accepted' = Append(accepted, << value, origin.who >>)
                /\ queried' = [a \in (DOMAIN queried) \cup {origin.who} |->
                                  IF a = origin.who THEN reserved[a] ELSE queried[a]]
           ELSE UNCHANGED << accepted, queried >>
        /\ UNCHANGED inflight

\* the ledger behind T::Currency reserves or unreserves funds of an account;
\* it does so in units of work of its own, between set_value calls
LedgerChange ==
    \E who \in Accounts, balance \in Balances :
        /\ pc = 0
        /\ reserved[who] # balance
        /\ reserved' = [reserved EXCEPT ![who] = balance]
        /\ UNCHANGED << GetValue, GetReservedBalance, events, result,
                        calls, lastOrigin, accepted, queried, inflight >>

Next == Submit \/ LedgerChange

Spec == Init /\ [][Next]_vars

(* ----------------------- set_value, statement by statement ------------ *)

\* variant: the value is stored before the ledger is asked
set_value_steps_put_before_query ==
    << "ensure_signed", "put", "reserved_balance", "deposit_event", "insert" >>

\* variant: the event is deposited after the two storage writes
set_value_steps_event_last ==
    << "ensure_signed", "reserved_balance", "put", "insert", "deposit_event" >>

\* the statements of set_value that read or write state, in source order
set_value_steps ==
    << "ensure_signed", "reserved_balance", "deposit_event", "put", "insert" >>

\* set_value is about to execute the statement stmt
At(stmt) == pc \in 1..Len(set_value_steps) /\ set_value_steps[pc] = stmt

\* the statement at pc has been executed and control moves to the next one
Advance(stmt) == pc' = pc + 1 /\ done' = Append(done, stmt)

\* the runtime dispatches a set_value call; no other call is in progress
Admit ==
    \E origin \in Origins, value \in Values :
        /\ pc = 0
        /\ calls < MaxCalls
        /\ pc' = 1
        /\ frame' = [NoFrame EXCEPT !.origin = origin, !.value = value]
        /\ saved' = [GetValue |-> GetValue,
                     GetReservedBalance |-> GetReservedBalance,
                     events |-> events]
        /\ done' = << >>
        /\ result' = "Running"
        /\ calls' = calls + 1
        /\ lastOrigin' = origin
        /\ UNCHANGED << GetValue, GetReservedBalance, events, reserved, accepted, queried >>

\* let caller = ensure_signed(origin)?;
StepEnsureSigned ==
    /\ At("ensure_signed")
    /\ LET signed == ensure_signed(frame.origin) IN
       IF ~signed.ok
       THEN /\ result' = "BadOrigin"
            /\ pc' = 0
            /\ done' = Append(done, "ensure_signed")
            /\ frame' = NoFrame
            /\ saved' = NoSaved
       ELSE /\ frame' = [frame EXCEPT !.caller = signed.who]
            /\ Advance("ensure_signed")
            /\ UNCHANGED << result, saved >>
    /\ UNCHANGED << GetValue, GetReservedBalance, events, reserved,
                    calls, lastOrigin, accepted, queried >>

\* let reserve_balance_of_caller = T::Currency::reserved_balance(&caller.clone());
StepReservedBalance ==
    /\ At("reserved_balance")
    /\ frame' = [frame EXCEPT !.balance = reserved_balance(frame.caller)]
    /\ Advance("reserved_balance")
    /\ UNCHANGED << GetValue, GetReservedBalance, events, result, reserved,
                    calls, lastOrigin, accepted, queried, saved >>

\* T::Currency::reserved_balance panics: it returns a Balance, not a Result, so
\* a fault of the ledger can only unwind out of set_value, which executes no
\* further statement and undoes none of those it has executed
OracleFault ==
    /\ At("reserved_balance")
    /\ result' = "Panicked"
    /\ pc' = 0
    /\ frame' = NoFrame
    /\ saved' = NoSaved
    /\ UNCHANGED << GetValue, GetReservedBalance, events, reserved,
                    calls, lastOrigin, accepted, queried, done >>

\* Self::deposit_event(Event::HelloValueStored(value.clone(), caller.clone()));
StepDepositEvent ==
    /\ At("deposit_event")
    /\ events' = deposit_event(HelloValueStored(frame.value, frame.caller))
    /\ Advance("deposit_event")
    /\ UNCHANGED << GetValue, GetReservedBalance, result, reserved,
                    calls, lastOrigin, accepted, queried, frame, saved >>

\* GetValue::<T>::put(value.clone());
StepPut ==
    /\ At("put")
    /\ GetValue' = put(frame.value)
    /\ Advance("put")
    /\ UNCHANGED << GetReservedBalance, events, result, reserved,
                    calls, lastOrigin, accepted, queried, frame, saved >>

\* GetReservedBalance::<T>::insert(caller.clone(), reserve_balance_of_caller.clone());
StepInsert ==
    /\ At("insert")
    /\ GetReservedBalance' = insert(frame.caller, frame.balance)
    /\ Advance("insert")
    /\ UNCHANGED << GetValue, events, result, reserved,
                    calls, lastOrigin, accepted, queried, frame, saved >>

\* Ok(().into())
Return ==
    /\ pc = Len(set_value_steps) + 1
    /\ result' = "Ok"
    /\ pc' = 0
    /\ accepted' = Append(accepted, << frame.value, frame.origin.who >>)
    /\ queried' = [a \in (DOMAIN queried) \cup {frame.origin.who} |->
                      IF a = frame.origin.who THEN reserved[a] ELSE queried[a]]
    /\ frame' = NoFrame
    /\ saved' = NoSaved
    /\ UNCHANGED << GetValue, GetReservedBalance, events, reserved,
                    calls, lastOrigin, done >>

\* the host discards the unit of work the call runs in: everything the call
\* has written so far is dropped and the call is over
HostDiscard ==
    /\ pc # 0
    /\ GetValue' = saved.GetValue
    /\ GetReservedBalance' = saved.GetReservedBalance
    /\ events' = saved.events
    /\ result' = "Discarded"
    /\ pc' = 0
    /\ frame' = NoFrame
    /\ saved' = NoSaved
    /\ UNCHANGED << reserved, calls, lastOrigin, accepted, queried, done >>

NextSteps ==
    \/ Admit
    \/ StepEnsureSigned
    \/ StepReservedBalance
    \/ OracleFault
    \/ StepDepositEvent
    \/ StepPut
    \/ StepInsert
    \/ Return
    \/ HostDiscard
    \/ LedgerChange

SpecSteps == Init /\ [][NextSteps]_vars

(* ------------------------ helpers of the properties ------------------- *)

\* the accounts that have made a signed call
Submitters == {accepted[i][2] : i \in 1..Len(accepted)}

\* the event a signed call <<value, account>> is expected to leave
EventOf(call) == HelloValueStored(call[1], call[2])

\* the last dispatched call came from a signed origin
LastCallSigned == lastOrigin.kind = "Signed"

\* the last dispatched call came from an origin that is no account
LastCallUnsigned == lastOrigin.kind \in {"Root", "None"}

(* ------------------------------ properties ---------------------------- *)

\* C1: after a set_value by a signed account a with value v, the call has
\* returned Ok, get_value is v and a's stored snapshot is the reserved balance
\* the ledger held for a when the call was made.
C1_SubmitStoresValueAndSnapshot ==
    LastCallSigned =>
        /\ result = "Ok"
        /\ get_value = accepted[Len(accepted)][1]
        /\ lastOrigin.who \in DOMAIN GetReservedBalance
        /\ get_reserved_balance(lastOrigin.who) = queried[lastOrigin.who]

\* C1 witness: a signed call stored the largest u32 and a non-zero balance.
C1_Witness ==
    /\ LastCallSigned
    /\ result = "Ok"
    /\ get_value = U32Max
    /\ get_reserved_balance(lastOrigin.who) = 1

\* C2: a set_value whose origin is not a signed account returns BadOrigin and
\* leaves GetValue, every entry of GetReservedBalance and the events as they were.
C2_FailedSubmitChangesNothing ==
    [][ (calls' = calls + 1 /\ lastOrigin'.kind # "Signed") =>
            /\ result' = "BadOrigin"
            /\ GetValue' = GetValue
            /\ GetReservedBalance' = GetReservedBalance
            /\ events' = events ]_vars

\* C2 witness: an unsigned call was rejected after a signed one had written state.
C2_Witness ==
    /\ LastCallUnsigned
    /\ result = "BadOrigin"
    /\ Len(events) > 0
    /\ GetValue # None
    /\ DOMAIN GetReservedBalance # {}

\* C3: the events are exactly the <<value, account>> of the signed calls, in
\* dispatch order, whatever rejected calls came between them; and storage is
\* written in the same steps as the events are deposited: a step changes
\* storage only if it deposits one event, and the step that deposits an event
\* leaves that event's value in GetValue and an entry for its account.
C3_EventOrderIsSubmissionOrder ==
    /\ [](events = [i \in 1..Len(accepted) |-> EventOf(accepted[i])])
    /\ [][ /\ store' # store => Len(events') = Len(events) + 1
           /\ events' # events =>
                /\ Len(events') = Len(events) + 1
                /\ SubSeq(events', 1, Len(events)) = events
                /\ GetValue' = Some(events'[Len(events')].value)
                /\ events'[Len(events')].account \in DOMAIN GetReservedBalance' ]_vars

\* C3 witness: two signed calls by different accounts with a rejected call dispatched too.
C3_Witness ==
    /\ Len(events) = 2
    /\ calls = 3
    /\ events[1].account # events[2].account
    /\ events[1].value # events[2].value
    /\ LastCallSigned

\* C4: the number of events equals the number of signed (successful) calls,
\* and every event comes with its pair of storage writes: GetValue is stored
\* and the event's account has a snapshot entry.
C4_OneEventPerSuccessfulSubmit ==
    /\ Len(events) = Len(accepted)
    /\ \A i \in 1..Len(events) :
          /\ GetValue # None
          /\ events[i].account \in DOMAIN GetReservedBalance

\* C4 witness: the same call made three times left three events.
C4_Witness ==
    /\ Len(events) = 3
    /\ events[1] = events[2]
    /\ events[2] = events[3]

\* C5 as stated: what get_reserved_balance answers for an account that never
\* submitted differs from what it answers for an account with a stored snapshot.
C5_AbsentIsDistinguishable ==
    \A a, b \in Accounts :
        (a \notin Submitters /\ b \in Submitters) =>
            get_reserved_balance(a) # get_reserved_balance(b)

\* C5 amended: an account that never made a signed call has no entry in
\* GetReservedBalance, and get_reserved_balance answers zero for it.
C5_NeverSubmittedHasNoEntry ==
    \A a \in Accounts :
        a \notin Submitters =>
            /\ a \notin DOMAIN GetReservedBalance
            /\ get_reserved_balance(a) = 0

\* C5 witness: one account never submitted, holds a reservation at the ledger,
\* and the other account has a stored snapshot of zero.
C5_Witness ==
    \E a, b \in Accounts :
        /\ a \notin Submitters
        /\ reserved[a] > 0
        /\ b \in DOMAIN GetReservedBalance
        /\ GetReservedBalance[b] = 0

\* C6: every stored snapshot equals the reserved balance the ledger held for
\* its account when that account last made a signed call, whatever the ledger
\* holds now and whoever submitted since.
C6_SnapshotIsPointInTime ==
    \A a \in DOMAIN GetReservedBalance :
        /\ a \in DOMAIN queried
        /\ GetReservedBalance[a] = queried[a]

\* C6 witness: a snapshot differs from the ledger's current balance and the
\* other account has submitted after it was taken.
C6_Witness ==
    \E a \in DOMAIN GetReservedBalance :
        /\ GetReservedBalance[a] # reserved[a]
        /\ LastCallSigned
        /\ lastOrigin.who # a
        /\ reserved[lastOrigin.who] # GetReservedBalance[lastOrigin.who]

\* C7: when the last two signed calls are by the same account a, with values
\* v1 then v2, GetValue holds v2 alone and the map holds for a the balance
\* queried by the second call, with one entry per account that ever submitted.
C7_OverwriteKeepsNoHistory ==
    LET n == Len(accepted) IN
    (n >= 2 /\ accepted[n][2] = accepted[n - 1][2]) =>
        LET a == accepted[n][2] IN
        /\ GetValue = Some(accepted[n][1])
        /\ a \in DOMAIN GetReservedBalance
        /\ GetReservedBalance[a] = queried[a]
        /\ DOMAIN GetReservedBalance = Submitters

\* C7 witness: an account submitted twice in a row with different values and
\* its snapshot is the non-zero balance of the second call.
C7_Witness ==
    LET n == Len(accepted) IN
    /\ n >= 2
    /\ accepted[n][2] = accepted[n - 1][2]
    /\ accepted[n][1] # accepted[n - 1][1]
    /\ GetReservedBalance[accepted[n][2]] = 1
    /\ DOMAIN GetReservedBalance = {accepted[n][2]}

\* C8: get_value is the value of the most recent signed call by any account,
\* and zero while there has been none; rejected calls do not change it.
C8_ScalarHoldsLastAccepted ==
    get_value = IF accepted = << >> THEN U32Zero ELSE accepted[Len(accepted)][1]

\* C8 witness: the largest u32 is still held after a later call was rejected.
C8_Witness ==
    /\ LastCallUnsigned
    /\ accepted # << >>
    /\ get_value = U32Max

\* C9: no step removes an entry of GetReservedBalance, and the entry of an
\* account b (its presence and its value) changes only in a step that is a
\* signed set_value by b.
C9_OnlyCallerEntryWritten ==
    [][ \A b \in Accounts :
          /\ b \in DOMAIN GetReservedBalance => b \in DOMAIN GetReservedBalance'
          /\ ~(calls' = calls + 1 /\ lastOrigin' = Signed(b)) =>
                /\ b \in DOMAIN GetReservedBalance' => b \in DOMAIN GetReservedBalance
                /\ b \in DOMAIN GetReservedBalance =>
                      GetReservedBalance'[b] = GetReservedBalance[b] ]_vars

\* C9 witness: both accounts have entries, with different balances.
C9_Witness ==
    /\ DOMAIN GetReservedBalance = Accounts
    /\ GetReservedBalance["alice"] # GetReservedBalance["bob"]
    /\ calls = MaxCalls

\* C10: no set_value call, accepted or rejected, changes the reserved balance
\* the ledger holds for any account.
C10_SubmitLeavesLedger ==
    [][ calls' = calls + 1 => reserved' = reserved ]_vars

\* C10 witness: after an accepted call the caller's reservation is still in place.
C10_Witness ==
    /\ LastCallSigned
    /\ result = "Ok"
    /\ reserved[lastOrigin.who] = 1
    /\ GetReservedBalance[lastOrigin.who] = 1

\* C12: a set_value fails only for want of a signed origin: every call from a
\* signed origin returns Ok and is recorded with the value it was given,
\* whatever the value (zero and the largest u32 included) and whatever was
\* submitted before; every other origin gets BadOrigin and nothing else is
\* ever returned.
C12_OnlyAuthenticationFails ==
    /\ result \in {"NoCall", "Ok", "BadOrigin"}
    /\ calls > 0 =>
          /\ result = "Ok" <=> LastCallSigned
          /\ result = "BadOrigin" <=> LastCallUnsigned
    /\ LastCallSigned =>
          /\ events # << >>
          /\ events[Len(events)] = EventOf(accepted[Len(accepted)])
          /\ events[Len(events)].account = lastOrigin.who
          /\ events[Len(events)].value \in Values

\* C12 witness: the same account submitted the largest u32 twice and then
\* zero, and the last call returned Ok.
C12_Witness ==
    /\ Len(accepted) = 3
    /\ accepted[1] = accepted[2]
    /\ accepted[1][1] = U32Max
    /\ accepted[3] = << U32Zero, accepted[1][2] >>
    /\ LastCallSigned
    /\ result = "Ok"

\* C14: the accounts that have an entry in GetReservedBalance are exactly the
\* accounts that appear in the events, and once there is an event GetValue
\* holds the value of the last one.
C14_StoreAgreesWithEvents ==
    /\ DOMAIN GetReservedBalance = {events[i].account : i \in 1..Len(events)}
    /\ events # << >> => GetValue = Some(events[Len(events)].value)
    /\ events = << >> => GetValue = None

\* C14 witness: an account submitted while it had nothing reserved, another
\* account has not submitted, and a rejected call came last.
C14_Witness ==
    /\ Len(events) = 2
    /\ DOMAIN GetReservedBalance = {events[1].account}
    /\ GetReservedBalance[events[1].account] = 0
    /\ events[1].value # events[2].value
    /\ LastCallUnsigned

\* C15: get_reserved_balance answers zero for an account that never submitted
\* and for an account that submitted while it had nothing reserved, although
\* only the second has an entry: the getter does not tell them apart.
C15_GetterDefaultsToZero ==
    \A a, b \in Accounts :
        (a \notin Submitters /\ b \in Submitters /\ queried[b] = 0) =>
            /\ get_reserved_balance(a) = 0
            /\ get_reserved_balance(b) = 0
            /\ get_reserved_balance(a) = get_reserved_balance(b)
            /\ a \notin DOMAIN GetReservedBalance
            /\ b \in DOMAIN GetReservedBalance

\* C15 witness: bob never submitted and has funds reserved at the ledger now,
\* alice submitted with nothing reserved and has funds reserved now.
C15_Witness ==
    /\ "bob" \notin Submitters
    /\ "alice" \in Submitters
    /\ queried["alice"] = 0
    /\ reserved["alice"] = 1
    /\ reserved["bob"] = 1

\* the order of statements C13 states
ClaimedOrder ==
    << "ensure_signed", "reserved_balance", "deposit_event", "put", "insert" >>

\* the storage and the events are those of the completed calls, each applied whole
WholeCallsOnly ==
    /\ events = [i \in 1..Len(accepted) |-> EventOf(accepted[i])]
    /\ GetValue = IF accepted = << >> THEN None ELSE Some(accepted[Len(accepted)][1])
    /\ DOMAIN GetReservedBalance = Submitters
    /\ \A a \in DOMAIN GetReservedBalance : GetReservedBalance[a] = queried[a]

C13_StatementOrder ==
    /\ Len(done) <= Len(ClaimedOrder)
    /\ done = SubSeq(ClaimedOrder, 1, Len(done))
    /\ result = "Ok" => done = ClaimedOrder
    /\ pc # 0 =>
          /\ events # saved.events => Len(done) >= 2
          /\ (GetValue # saved.GetValue \/ GetReservedBalance # saved.GetReservedBalance) =>
                events = Append(saved.events, HelloValueStored(frame.value, frame.caller))
          /\ GetReservedBalance # saved.GetReservedBalance => GetValue = Some(frame.value)

\* C13 witness: the call in progress has deposited its event and has written
\* neither GetValue nor the map yet.
C13_Witness ==
    /\ pc # 0
    /\ Len(done) = 3
    /\ events = Append(saved.events, HelloValueStored(frame.value, frame.caller))
    /\ GetValue = saved.GetValue
    /\ GetValue # Some(frame.value)
    /\ GetReservedBalance = saved.GetReservedBalance
    /\ frame.caller \notin DOMAIN GetReservedBalance

====
